---- MODULE Spec2Model ----
(***************************************************************************)
(* simple-app: a CDK stack (two DynamoDB tables, three Lambda functions    *)
(* behind function URLs, a one-shot seed of the tables) and the Movie      *)
(* Lookup handler lambdas/getMovieById.ts.                                 *)
(*                                                                         *)
(* The state is the two tables, whether the seed has run, and one record   *)
(* per invocation slot: the request as it reached the function URL, the    *)
(* handler's position, the command it has in flight, the store's answer    *)
(* and the response it returned.                                           *)
(*                                                                         *)
(* The three functions share nothing but the store, so each is checked     *)
(* under a specification of its own: SpecMovies (Movie Lookup, concurrent  *)
(* invocations), SpecCast (Cast Lookup, whose handler file is not part of  *)
(* the sources and is modelled from its written design) and SpecGateway    *)
(* (the function URLs of all three functions).                             *)
(***************************************************************************)
EXTENDS Integers, FiniteSets, Sequences, TLC

VARIABLES movies, cast, seeded, inv

vars == <<movies, cast, seeded, inv>>

(***************************************************************************)
(* Bounds of the model.                                                    *)
(***************************************************************************)
MaxMovieId == 3

MaxInvocations == 2

MovieIds == 1..MaxMovieId

Slots == 1..MaxInvocations

(***************************************************************************)
(* The stack.                                                              *)
(***************************************************************************)
Functions == {"SimpleFn", "GetMovieByIdFn", "GetCastMemberFn"}

AuthTypeOpen(fn) == "NONE"

AuthType(fn) ==
  CASE fn = "SimpleFn" -> "AWS_IAM"
    [] fn = "GetMovieByIdFn" -> "NONE"
    [] fn = "GetCastMemberFn" -> "NONE"

MoviesTableName == "Movies"

MovieCastTableName == "MovieCast"

StackRegion == "eu-west-1"

\* The tables the stack creates, each in the region the stack names.
ProvisionedTables ==
  { [region |-> StackRegion, name |-> MoviesTableName],
    [region |-> StackRegion, name |-> MovieCastTableName] }

\* The tables the seed resource writes to.
SeededTables == {MoviesTableName, MovieCastTableName}

\* grantReadData: the read actions of a table, and no write action.
ReadActions ==
  {"BatchGetItem", "GetRecords", "GetShardIterator", "Query", "GetItem",
   "Scan", "ConditionCheckItem", "DescribeTable"}

\* The <<table, action>> pairs each function's role is granted.
Grants(fn) ==
  CASE fn = "GetMovieByIdFn" -> {MoviesTableName} \X ReadActions
    [] fn = "GetCastMemberFn" ->
         {MoviesTableName, MovieCastTableName} \X (ReadActions \cup {"GetItem", "Query"})
    [] OTHER -> {}

(***************************************************************************)
(* Records of the two tables.                                              *)
(***************************************************************************)
Actors == {"X", "Y"}

RoleOf(a) == IF a = "X" THEN "Hero" ELSE "Villain"

TitleOf(n) == IF n % 2 = 1 THEN "A" ELSE "B"

MovieRec(n) == [id |-> n, title |-> TitleOf(n)]

MovieRecords == {MovieRec(n) : n \in MovieIds}

NoMovie == [id |-> 0, title |-> ""]

CastRow(m, a) == [movieId |-> m, actorName |-> a, roleName |-> RoleOf(a), movie |-> NoMovie]

CastRowsOf(ids) == {CastRow(m, a) : m \in ids, a \in Actors}

(***************************************************************************)
(* Commands, store answers and responses.                                  *)
(***************************************************************************)
NoRequest == [action |-> "", region |-> "", table |-> "", key |-> 0, actor |-> ""]

NoReply == [kind |-> "none", items |-> {}, error |-> "", more |-> FALSE]

Ok(items, more) == [kind |-> "ok", items |-> items, error |-> "", more |-> more]

Err(e) == [kind |-> "error", items |-> {}, error |-> e, more |-> FALSE]

NoBody == [fields |-> {}, data |-> {}, error |-> ""]

NoResponse == [statusCode |-> 0, body |-> NoBody]

NoParams == [movieId |-> "", actorName |-> "", movie |-> FALSE]

IdleInv ==
  [fn |-> "", signed |-> FALSE, params |-> NoParams, pc |-> "idle", sent |-> 0,
   req |-> NoRequest, reply |-> NoReply, scanned |-> {}, rows |-> {},
   resp |-> NoResponse]

(***************************************************************************)
(* lambdas/getMovieById.ts                                                 *)
(***************************************************************************)
HandlerTableNameTypo == "Movie"

HandlerTableName == "Movies"

ClientRegion == "eu-west-1"

\* new ScanCommand({ TableName: 'Movies' }) sent through the module's client.
ScanRequestAsPut ==
  [action |-> "PutItem", region |-> ClientRegion, table |-> HandlerTableName,
   key |-> 1, actor |-> ""]

ScanRequest ==
  [action |-> "Scan", region |-> ClientRegion, table |-> HandlerTableName,
   key |-> 0, actor |-> ""]

\* JSON.stringify({ data: Items }): the key is kept for a list, also an empty one.
SuccessResponseDropEmpty(items) ==
  [statusCode |-> 200,
   body |-> IF items = {} THEN NoBody
            ELSE [fields |-> {"data"}, data |-> items, error |-> ""]]

SuccessResponse(items) ==
  [statusCode |-> 200, body |-> [fields |-> {"data"}, data |-> items, error |-> ""]]

\* The catch block: JSON.stringify({ error }).
ErrorResponseAs200(e) ==
  [statusCode |-> 200, body |-> [fields |-> {"error"}, data |-> {}, error |-> e]]

ErrorResponse(e) ==
  [statusCode |-> 500, body |-> [fields |-> {"error"}, data |-> {}, error |-> e]]

(***************************************************************************)
(* The store, as the handlers' commands see it.                            *)
(***************************************************************************)
\* Records one Scan call returns: the store's 1 MB page, counted in records.
\* The handler sends no ExclusiveStartKey, so it reads the first page only.
ScanPageLimit == 2

\* The pages a Scan of `table` may return (the scan order is the store's).
ScanPages(table) ==
  IF Cardinality(table) <= ScanPageLimit
    THEN {table}
    ELSE {p \in SUBSET table : Cardinality(p) = ScanPageLimit}

TableExists(req) == [region |-> req.region, name |-> req.table] \in ProvisionedTables

Granted(fn, req) == <<req.table, req.action>> \in Grants(fn)

TableOf(name) == IF name = MoviesTableName THEN movies ELSE cast

KeyMatches(req, item) ==
  IF req.table = MoviesTableName
    THEN item.id = req.key
    ELSE item.movieId = req.key /\ (req.actor = "" \/ item.actorName = req.actor)

ItemOf(req) ==
  IF req.table = MoviesTableName THEN MovieRec(req.key) ELSE CastRow(req.key, req.actor)

\* What the store may answer to a command that is allowed and well addressed.
Successes(req) ==
  CASE req.action = "Scan" ->
         {Ok(p, p # TableOf(req.table)) : p \in ScanPages(TableOf(req.table))}
    [] req.action \in {"Query", "GetItem"} ->
         {Ok({it \in TableOf(req.table) : KeyMatches(req, it)}, FALSE)}
    [] OTHER -> {Ok({}, FALSE)}

\* Every answer the store may give to function fn's command req.
StoreOutcomes(fn, req) ==
  IF ~Granted(fn, req) THEN {Err("AccessDeniedException")}
  ELSE IF ~TableExists(req) THEN {Err("ResourceNotFoundException")}
  ELSE Successes(req) \cup {Err("InternalServerError")}

\* A table after the store has answered `out` to `req`.
TableAfter(name, req, out) ==
  IF out.kind = "ok" /\ req.table = name /\ req.action = "PutItem"
    THEN TableOf(name) \cup {ItemOf(req)}
    ELSE TableOf(name)

\* The store answers the command invocation i has in flight.
StoreServe(i) ==
  /\ inv[i].pc = "awaiting"
  /\ \E out \in StoreOutcomes(inv[i].fn, inv[i].req) :
       /\ inv' = [inv EXCEPT ![i].pc = "replied", ![i].reply = out,
                             ![i].scanned = TableOf(inv[i].req.table)]
       /\ movies' = TableAfter(MoviesTableName, inv[i].req, out)
       /\ cast' = TableAfter(MovieCastTableName, inv[i].req, out)
  /\ UNCHANGED seeded

\* The seed resource's onCreate batchWriteItem: once, into both tables.
SeedInitData ==
  /\ ~seeded
  /\ \E ms \in SUBSET MovieRecords, cs \in SUBSET MovieIds :
       /\ movies' = movies \cup ms
       /\ cast' = cast \cup CastRowsOf(cs)
  /\ seeded' = TRUE
  /\ UNCHANGED inv

(***************************************************************************)
(* The function URLs.                                                      *)
(***************************************************************************)
DigitStr == <<"1", "2", "3", "4", "5", "6", "7", "8", "9">>

RawMovieIds == {"", "abc"} \cup {DigitStr[n] : n \in MovieIds}

CastParams ==
  [movieId : RawMovieIds, actorName : {"", "X"}, movie : BOOLEAN]

ParamsFor(fn) == IF fn = "GetCastMemberFn" THEN CastParams ELSE {NoParams}

\* A request reaches the URL of one of the functions fns.
Arrive(i, fns) ==
  /\ inv[i].pc = "idle"
  /\ \E fn \in fns, s \in BOOLEAN :
       \E p \in ParamsFor(fn) :
         inv' = [inv EXCEPT ![i] = [IdleInv EXCEPT !.fn = fn, !.signed = s,
                                                   !.params = p, !.pc = "atGateway"]]
  /\ UNCHANGED <<movies, cast, seeded>>

\* The URL's authType decides whether the request is handed to the function.
Allowed(fn, signed) == AuthType(fn) = "NONE" \/ signed

\* The event handed over names the caller's identity only under AWS_IAM.
Route(i) ==
  /\ inv[i].pc = "atGateway"
  /\ inv' = IF Allowed(inv[i].fn, inv[i].signed)
              THEN [inv EXCEPT ![i].pc = "invoked",
                               ![i].signed = inv[i].signed /\ AuthType(inv[i].fn) = "AWS_IAM"]
              ELSE [inv EXCEPT ![i].pc = "rejected"]
  /\ UNCHANGED <<movies, cast, seeded>>

\* timeout: cdk.Duration.seconds(10): the invocation is ended while it waits.
Timeout(i) ==
  /\ inv[i].pc = "awaiting"
  /\ inv' = [inv EXCEPT ![i].pc = "timedOut"]
  /\ UNCHANGED <<movies, cast, seeded>>

(***************************************************************************)
(* Movie Lookup: the handler of lambdas/getMovieById.ts.                   *)
(***************************************************************************)
\* await ddbDocClient.send(new ScanCommand(...)): the one command is sent.
MovieSend(i) ==
  /\ inv[i].fn = "GetMovieByIdFn"
  /\ inv[i].pc = "invoked"
  /\ inv' = [inv EXCEPT ![i].pc = "awaiting", ![i].sent = inv[i].sent + 1,
                        ![i].req = ScanRequest]
  /\ UNCHANGED <<movies, cast, seeded>>

\* A module-level variable would hold the answer of whichever invocation
\* was answered and has not returned yet.
CommandOutputShared(i) ==
  LET R == {j \in Slots : inv[j].pc = "replied"}
  IN inv[CHOOSE j \in R : \A k \in R : j <= k].reply

\* const commandOutput: local to the invocation.
CommandOutput(i) == inv[i].reply

\* The response of try (the send resolved) or of catch (it rejected).
HandlerResponse(out) ==
  IF out.kind = "ok" THEN SuccessResponse(out.items) ELSE ErrorResponse(out.error)

MovieReturnRetrying(i) ==
  /\ inv[i].fn = "GetMovieByIdFn"
  /\ inv[i].pc = "replied"
  /\ inv' = IF CommandOutput(i).kind = "error" /\ inv[i].sent < 2
              THEN [inv EXCEPT ![i].pc = "awaiting", ![i].sent = inv[i].sent + 1]
              ELSE [inv EXCEPT ![i].pc = "done",
                               ![i].resp = HandlerResponse(CommandOutput(i))]
  /\ UNCHANGED <<movies, cast, seeded>>

\* The handler returns: no second command, no rethrow.
MovieReturn(i) ==
  /\ inv[i].fn = "GetMovieByIdFn"
  /\ inv[i].pc = "replied"
  /\ inv' = [inv EXCEPT ![i].pc = "done",
                        ![i].resp = HandlerResponse(CommandOutput(i))]
  /\ UNCHANGED <<movies, cast, seeded>>

Init ==
  /\ movies = {}
  /\ cast = {}
  /\ seeded = FALSE
  /\ inv = [i \in Slots |-> IdleInv]

NextMovies ==
  \/ SeedInitData
  \/ \E i \in Slots : Arrive(i, {"GetMovieByIdFn"})
  \/ \E i \in Slots : Route(i)
  \/ \E i \in Slots : MovieSend(i)
  \/ \E i \in Slots : StoreServe(i)
  \/ \E i \in Slots : MovieReturn(i)
  \/ \E i \in Slots : Timeout(i)

SpecMovies == Init /\ [][NextMovies]_vars

(***************************************************************************)
(* Cast Lookup: lambdas/getMovieCastMembers.ts, which the stack deploys    *)
(* and whose file is not among the sources; modelled from its design:      *)
(* validate movieId, query the cast rows, optionally look the movie up     *)
(* and merge it into every row.                                            *)
(***************************************************************************)
\* One invocation at a time: an execution environment handles one event.
CastSlots == {1}

ValidMovieIdLax(s) == s # ""

\* The integer a raw parameter parses to; 0 stands for NaN.
ParseMovieId(s) ==
  IF \E n \in 1..Len(DigitStr) : DigitStr[n] = s
    THEN CHOOSE n \in 1..Len(DigitStr) : DigitStr[n] = s
    ELSE 0

\* movieId is present and parses as an integer.
ValidMovieId(s) == s # "" /\ ParseMovieId(s) # 0

ValidationResponse ==
  [statusCode |-> 400, body |-> [fields |-> {"error"}, data |-> {}, error |-> "InvalidMovieId"]]

\* The table names and the region come from the function's environment.
CastQueryRequest(p) ==
  [action |-> "Query", region |-> StackRegion, table |-> MovieCastTableName,
   key |-> ParseMovieId(p.movieId), actor |-> p.actorName]

MovieGetRequest(p) ==
  [action |-> "GetItem", region |-> StackRegion, table |-> MoviesTableName,
   key |-> ParseMovieId(p.movieId), actor |-> ""]

\* The same movie is merged into every row.
Enrich(rows, m) == {[r EXCEPT !.movie = m] : r \in rows}

CastLookupResponseStrict(rows, out) ==
  IF out.kind = "error" \/ out.items = {}
    THEN ErrorResponse(IF out.kind = "error" THEN out.error ELSE "MovieNotFound")
    ELSE SuccessResponse(Enrich(rows, CHOOSE m \in out.items : TRUE))

\* The response once the movie lookup is answered: a missing movie leaves
\* the rows as they are.
CastLookupResponse(rows, out) ==
  IF out.kind = "error" THEN ErrorResponse(out.error)
  ELSE IF out.items = {} THEN SuccessResponse(rows)
  ELSE SuccessResponse(Enrich(rows, CHOOSE m \in out.items : TRUE))

\* Validation at the boundary, then the cast query.
CastStart(i) ==
  /\ inv[i].fn = "GetCastMemberFn"
  /\ inv[i].pc = "invoked"
  /\ inv' = IF ValidMovieId(inv[i].params.movieId)
              THEN [inv EXCEPT ![i].pc = "awaiting", ![i].sent = inv[i].sent + 1,
                               ![i].req = CastQueryRequest(inv[i].params)]
              ELSE [inv EXCEPT ![i].pc = "done", ![i].resp = ValidationResponse]
  /\ UNCHANGED <<movies, cast, seeded>>

\* The cast query is answered: fail, return the rows, or look the movie up.
CastAfterQuery(i) ==
  /\ inv[i].fn = "GetCastMemberFn"
  /\ inv[i].pc = "replied"
  /\ inv[i].req.action = "Query"
  /\ inv' =
       IF inv[i].reply.kind = "error"
         THEN [inv EXCEPT ![i].pc = "done", ![i].resp = ErrorResponse(inv[i].reply.error)]
       ELSE IF inv[i].reply.items = {} \/ ~inv[i].params.movie
         THEN [inv EXCEPT ![i].pc = "done", ![i].rows = inv[i].reply.items,
                          ![i].resp = SuccessResponse(inv[i].reply.items)]
       ELSE [inv EXCEPT ![i].pc = "awaiting", ![i].sent = inv[i].sent + 1,
                        ![i].rows = inv[i].reply.items, ![i].reply = NoReply,
                        ![i].req = MovieGetRequest(inv[i].params)]
  /\ UNCHANGED <<movies, cast, seeded>>

\* The movie lookup is answered.
CastAfterLookup(i) ==
  /\ inv[i].fn = "GetCastMemberFn"
  /\ inv[i].pc = "replied"
  /\ inv[i].req.action = "GetItem"
  /\ inv' = [inv EXCEPT ![i].pc = "done",
                        ![i].resp = CastLookupResponse(inv[i].rows, inv[i].reply)]
  /\ UNCHANGED <<movies, cast, seeded>>

NextCast ==
  \/ SeedInitData
  \/ \E i \in CastSlots : Arrive(i, {"GetCastMemberFn"})
  \/ \E i \in CastSlots : Route(i)
  \/ \E i \in CastSlots : CastStart(i)
  \/ \E i \in CastSlots : StoreServe(i)
  \/ \E i \in CastSlots : CastAfterQuery(i)
  \/ \E i \in CastSlots : CastAfterLookup(i)
  \/ \E i \in CastSlots : Timeout(i)

SpecCast == Init /\ [][NextCast]_vars

(***************************************************************************)
(* The auxiliary basic function (lambdas/simple.ts, not among the          *)
(* sources): it answers without touching the store.                        *)
(***************************************************************************)
SimpleRun(i) ==
  /\ inv[i].fn = "SimpleFn"
  /\ inv[i].pc = "invoked"
  /\ inv' = [inv EXCEPT ![i].pc = "done",
                        ![i].resp = [statusCode |-> 200, body |-> NoBody]]
  /\ UNCHANGED <<movies, cast, seeded>>

NextGateway ==
  \/ \E i \in Slots : Arrive(i, Functions)
  \/ \E i \in Slots : Route(i)
  \/ \E i \in Slots : SimpleRun(i)

SpecGateway == Init /\ [][NextGateway]_vars

(***************************************************************************)
(* Properties.                                                             *)
(***************************************************************************)
IsMovieLookup(i) == inv[i].fn = "GetMovieByIdFn"

IsCastLookup(i) == inv[i].fn = "GetCastMemberFn"

Returned(i) == inv[i].pc = "done"

\* C1: whenever a Movie Lookup invocation's scan succeeded, its response has
\* status 200 and its data list is exactly the Movies collection as it was
\* when the store served the scan, whatever the collection's size.
C1_DataIsWholeCollection ==
  \A i \in Slots :
    IsMovieLookup(i) /\ Returned(i) /\ inv[i].reply.kind = "ok" =>
      /\ inv[i].resp.statusCode = 200
      /\ "data" \in inv[i].resp.body.fields
      /\ inv[i].resp.body.data = inv[i].scanned

\* C2: a Movie Lookup invocation whose store access failed is either about
\* to return or has returned; what it returns is status 500 with a body
\* holding only the error's details, never status 200.
C2_StoreFailureGives500 ==
  \A i \in Slots :
    IsMovieLookup(i) /\ inv[i].reply.kind = "error" =>
      /\ inv[i].pc \in {"replied", "done"}
      /\ Returned(i) =>
           /\ inv[i].resp.statusCode = 500
           /\ inv[i].resp.body.fields = {"error"}
           /\ inv[i].resp.body.error = inv[i].reply.error

C2_Witness ==
  \E i \in Slots :
    /\ IsMovieLookup(i) /\ Returned(i)
    /\ inv[i].reply.kind = "error"
    /\ inv[i].resp.statusCode = 500

\* C3: a successful scan of an empty Movies collection is answered with
\* status 200 and a body whose data key is present and holds the empty list.
C3_EmptyCollectionGivesEmptyData ==
  \A i \in Slots :
    IsMovieLookup(i) /\ Returned(i) /\ inv[i].reply.kind = "ok" /\ inv[i].scanned = {} =>
      /\ inv[i].resp.statusCode = 200
      /\ inv[i].resp.body.fields = {"data"}
      /\ inv[i].resp.body.data = {}

C3_Witness ==
  \E i \in Slots :
    /\ IsMovieLookup(i) /\ Returned(i)
    /\ inv[i].reply.kind = "ok" /\ inv[i].scanned = {}
    /\ inv[i].resp.statusCode = 200

\* C4: a Movie Lookup invocation has sent no command before the handler
\* runs and exactly one from its send on, also after the store answered with
\* an error and after the response is returned.
C4_ExactlyOneRequest ==
  \A i \in Slots :
    IsMovieLookup(i) =>
      /\ inv[i].pc \in {"atGateway", "invoked"} => inv[i].sent = 0
      /\ inv[i].pc \in {"awaiting", "replied", "done", "timedOut"} => inv[i].sent = 1

C4_Witness ==
  \E i, j \in Slots :
    /\ IsMovieLookup(i) /\ Returned(i) /\ inv[i].reply.kind = "error" /\ inv[i].sent = 1
    /\ IsMovieLookup(j) /\ Returned(j) /\ inv[j].reply.kind = "ok" /\ inv[j].sent = 1

\* Every command a Movie Lookup invocation has sent is a read action.
C5_OnlyReads ==
  \A i \in Slots : IsMovieLookup(i) /\ inv[i].sent > 0 => inv[i].req.action \in ReadActions

\* C5: every command a Movie Lookup invocation sends is a read action, and
\* no step of an invocation, successful or failed, changes the Movies or the
\* MovieCast collection.
C5_ReadOnly ==
  /\ []C5_OnlyReads
  /\ [][inv' # inv => movies' = movies /\ cast' = cast]_vars

C5_Witness ==
  \E i, j \in Slots :
    /\ movies # {} /\ cast # {}
    /\ IsMovieLookup(i) /\ Returned(i) /\ inv[i].resp.statusCode = 200
    /\ IsMovieLookup(j) /\ Returned(j) /\ inv[j].resp.statusCode = 500

\* A returned response is built from the store's answer to the invocation's
\* own scan, and that answer is a page of the collection as that scan saw it.
C6_OwnAnswer ==
  \A i \in Slots :
    IsMovieLookup(i) /\ Returned(i) =>
      /\ inv[i].reply.kind = "ok" =>
           /\ inv[i].resp.statusCode = 200
           /\ inv[i].resp.body.fields = {"data"}
           /\ inv[i].resp.body.data = inv[i].reply.items
           /\ inv[i].reply.items \in ScanPages(inv[i].scanned)
      /\ inv[i].reply.kind = "error" =>
           /\ inv[i].resp.statusCode = 500
           /\ inv[i].resp.body.error = inv[i].reply.error

\* C6: whatever the interleaving of Movie Lookup invocations sharing the
\* module's client, each response is the one built from the store's answer
\* to the invocation's own scan, and a returned response is not changed by
\* any later step of any invocation.
C6_Isolated ==
  /\ []C6_OwnAnswer
  /\ [][\A i \in Slots : Returned(i) => inv'[i] = inv[i]]_vars

C6_Witness ==
  \E i, j \in Slots :
    /\ i # j
    /\ IsMovieLookup(i) /\ Returned(i) /\ inv[i].resp.statusCode = 500
    /\ IsMovieLookup(j) /\ inv[j].pc = "replied"
    /\ inv[j].reply.kind = "ok" /\ inv[j].reply.items # {}

\* C7: a Cast Lookup invocation whose movieId is missing or not numeric never
\* sends a command to the store, and what it returns has a 4xx status.
C7_InvalidIdNoStoreAccess ==
  \A i \in CastSlots :
    IsCastLookup(i) /\ inv[i].params.movieId \in {"", "abc"} =>
      /\ inv[i].sent = 0
      /\ inv[i].req = NoRequest
      /\ inv[i].pc \in {"atGateway", "invoked", "done"}
      /\ Returned(i) => inv[i].resp.statusCode \in 400..499

C7_Witness ==
  \E i \in CastSlots :
    /\ IsCastLookup(i) /\ Returned(i)
    /\ inv[i].params.movieId = "abc"
    /\ inv[i].resp.statusCode = 400 /\ inv[i].sent = 0

\* C8: a Cast Lookup invocation with enrichment enabled whose cast query
\* found rows and whose movie lookup found no movie returns status 200 with
\* exactly those rows, none enriched; one whose last store answer was an
\* error (the cast query's or the movie lookup's) returns status 500.
C8_MissingMovieIsNotAnError ==
  \A i \in CastSlots :
    IsCastLookup(i) /\ Returned(i) =>
      /\ (/\ inv[i].params.movie /\ inv[i].rows # {}
          /\ inv[i].req.action = "GetItem"
          /\ inv[i].reply.kind = "ok" /\ inv[i].reply.items = {}) =>
           /\ inv[i].resp.statusCode = 200
           /\ inv[i].resp.body.fields = {"data"}
           /\ inv[i].resp.body.data = inv[i].rows
           /\ \A r \in inv[i].resp.body.data : r.movie = NoMovie
      /\ inv[i].reply.kind = "error" => inv[i].resp.statusCode = 500

C8_Witness ==
  \E i \in CastSlots :
    /\ IsCastLookup(i) /\ Returned(i)
    /\ inv[i].params.movie /\ inv[i].rows # {}
    /\ inv[i].req.action = "GetItem"
    /\ inv[i].reply.kind = "ok" /\ inv[i].reply.items = {}
    /\ inv[i].resp.statusCode = 200

\* C9: exactly one function URL, the basic function's, asks for a signed
\* identity; a request is handed to the basic function only with one, and
\* the only requests ever turned away are unsigned ones to the basic
\* function, so none to Movie Lookup or Cast Lookup is.
C9_OnlyBasicNeedsIdentity ==
  /\ {fn \in Functions : AuthType(fn) = "AWS_IAM"} = {"SimpleFn"}
  /\ \A i \in Slots :
       /\ inv[i].fn = "SimpleFn" /\ inv[i].pc \in {"invoked", "done"} => inv[i].signed
       /\ inv[i].pc = "rejected" => inv[i].fn = "SimpleFn" /\ ~inv[i].signed

C9_Witness ==
  \E i, j \in Slots :
    /\ inv[i].fn = "SimpleFn" /\ inv[i].pc = "rejected" /\ ~inv[i].signed
    /\ inv[j].fn \in {"GetMovieByIdFn", "GetCastMemberFn"} /\ inv[j].pc = "invoked"

\* C10: the table and region the handler names are the stack's, and every
\* scan a Movie Lookup invocation sends addresses a table the stack
\* provisions, seeds and lets the function read; the store never answers
\* that the table is missing or the access denied.
C10_ScanTargetsProvisionedTable ==
  /\ HandlerTableName = MoviesTableName
  /\ ClientRegion = StackRegion
  /\ \A i \in Slots :
       IsMovieLookup(i) /\ inv[i].sent > 0 =>
         /\ [region |-> inv[i].req.region, name |-> inv[i].req.table] \in ProvisionedTables
         /\ inv[i].req.table \in SeededTables
         /\ <<inv[i].req.table, inv[i].req.action>> \in Grants("GetMovieByIdFn")
         /\ inv[i].reply.error \notin {"ResourceNotFoundException", "AccessDeniedException"}

C10_Witness ==
  \E i \in Slots :
    /\ IsMovieLookup(i) /\ inv[i].pc = "replied"
    /\ seeded /\ inv[i].reply.kind = "ok" /\ inv[i].reply.items # {}

====
